---- MODULE Spec2Model ----
(***************************************************************************)
(* Model of the inference engine AkinatorEfficientWeb                      *)
(* (src/akinator_logic.py): the belief state of one game and the           *)
(* operations reset_game_state, record_answer_and_update,                  *)
(* handle_wrong_guess and get_guess_if_ready.                              *)
(*                                                                         *)
(* Numbers.  The code stores probabilities as floats.  The model keeps     *)
(* them exact: probabilities[name] is a numerator and the variable scale   *)
(* is the denominator all of them share, so the float the code holds for   *)
(* name is probabilities[name] / scale.  Numerators and scale are          *)
(* unbounded naturals written as little-endian sequences of limbs in base  *)
(* Base (<<>> is 0), because the 1e-9 thresholds of the code need more     *)
(* than the 32 bits of a TLC integer.                                      *)
(***************************************************************************)
EXTENDS Integers, Sequences, FiniteSets, TLC

(***************************************************************************)
(* Bounds of the model.                                                    *)
(***************************************************************************)
\* record_answer_and_update is not taken once questions_asked_count is here
MaxQuestions == 5
\* handle_wrong_guess is not taken on a name whose probability is already
\* below 10^-MaxPenaltyDepth (and is not 0)
MaxPenaltyDepth == 9
\* the belief states get_guess_if_ready is applied to on its own have
\* probabilities k / GuessGrid
GuessGrid == 20

(***************************************************************************)
(* Exact arithmetic on naturals of any size.                               *)
(***************************************************************************)
Base == 10 ^ 4
Zero == << >>
One == <<1>>

RECURSIVE FromNat(_)
FromNat(n) == IF n = 0 THEN << >> ELSE <<n % Base>> \o FromNat(n \div Base)

\* (an operator's arguments are evaluated once, a LET definition at every
\* use: the helpers below take as arguments what they use more than once)
HeadOr0(a) == IF a = << >> THEN 0 ELSE Head(a)
TailOrEmpty(a) == IF a = << >> THEN << >> ELSE Tail(a)

RECURSIVE BAddC(_, _, _)
BAddStep(a, b, s) ==
    <<s % Base>> \o BAddC(TailOrEmpty(a), TailOrEmpty(b), s \div Base)

BAddC(a, b, c) ==
    IF a = << >> /\ b = << >>
    THEN FromNat(c)
    ELSE BAddStep(a, b, HeadOr0(a) + HeadOr0(b) + c)

BAdd(a, b) == BAddC(a, b, 0)

RECURSIVE BMulSmallC(_, _, _)
BMulSmallStep(a, k, s) == <<s % Base>> \o BMulSmallC(Tail(a), k, s \div Base)

BMulSmallC(a, k, c) ==
    IF a = << >> THEN FromNat(c) ELSE BMulSmallStep(a, k, Head(a) * k + c)

\* a * k for a limb-sized k
BMulSmall(a, k) == IF k = 0 \/ a = << >> THEN << >> ELSE BMulSmallC(a, k, 0)

\* a * Base
BShift(a) == IF a = << >> THEN << >> ELSE <<0>> \o a

RECURSIVE BMul(_, _)
BMul(a, b) ==
    IF a = << >> \/ b = << >>
    THEN << >>
    ELSE BAdd(BMulSmall(b, Head(a)), BShift(BMul(Tail(a), b)))

RECURSIVE BLessFrom(_, _, _)
BLessFrom(a, b, i) ==
    IF i = 0 THEN FALSE
    ELSE IF a[i] # b[i] THEN a[i] < b[i]
    ELSE BLessFrom(a, b, i - 1)

\* a < b
BLess(a, b) ==
    IF Len(a) # Len(b) THEN Len(a) < Len(b) ELSE BLessFrom(a, b, Len(a))

BLeq(a, b) == ~BLess(b, a)

\* k divides a, for a k that divides Base
BDivides(k, a) == a = << >> \/ Head(a) % k = 0

\* a / k for a k that divides Base and a
BDivExact(a, k) == IF a = << >> THEN << >> ELSE Tail(BMulSmall(a, Base \div k))

(***************************************************************************)
(* Game parameters (AkinatorEfficientWeb.__init__).  A float parameter is  *)
(* written as a fraction Num / Den.                                        *)
(***************************************************************************)
\* certainty_threshold = 0.85
certainty_threshold_num == 85
certainty_threshold_den == 100
min_questions_before_confident_guess == 5
soft_elimination_questions_count == 3
\* match_multiplier_soft = 1.0 and mismatch_multiplier_soft = 0.4
match_multiplier_soft_num == 10
mismatch_multiplier_soft_num == 4
multiplier_soft_den == 10
\* the factor 0.01 of handle_wrong_guess
wrong_guess_penalty_den == 100
\* the floor 0.01 a guess of get_guess_if_ready must exceed
guess_floor_den == 100
\* the tolerance 1e-9 is 1 / EpsDen
EpsDen == FromNat(1000000000)

(***************************************************************************)
(* The catalog (_load_data_into_memory): the dataset of the game, loaded   *)
(* once.  It is the three-identity catalog X:{a:1,b:0}, Y:{a:0,b:1},       *)
(* Z:{a:1,b:1}; the attribute dictionary of X has no key "b", and a        *)
(* missing key reads as 0.                                                 *)
(***************************************************************************)
ScenarioCatalog ==
    [X |-> [a |-> 1],
     Y |-> [a |-> 0, b |-> 1],
     Z |-> [a |-> 1, b |-> 1]]

\* the attribute names a caller may send; "zz" is in no catalog
AttributeInputs == {"a", "b", "zz"}
\* the names a caller may send to handle_wrong_guess: an identity,
\* "Nobody", which is no identity, and "" for no name at all
NameInputs == {"X", "Nobody", ""}

VARIABLES
    person_attributes_map,      \* name -> (attribute -> 0/1), fixed after load
    all_person_names,           \* the names, in the order of the dataset
    all_available_attributes,   \* every attribute name of the dataset
    probabilities,              \* name -> numerator of its probability
    scale,                      \* the denominator the numerators share
    asked_attributes,
    questions_asked_count,
    current_question_is_soft,   \* regime of the last answer: "soft", "hard", "none"
    hard_consistent,            \* history: the names that match every answer
                                \* this game processed in the hard regime
    ret,                        \* the last call and what it returned
    stored                      \* the table sessions of src/main.py:
                                \* session_id -> the saved state, or Absent

catalog_vars == <<person_attributes_map, all_person_names, all_available_attributes>>
game_vars == <<probabilities, scale, asked_attributes, questions_asked_count>>
vars == <<person_attributes_map, all_person_names, all_available_attributes,
          probabilities, scale, asked_attributes, questions_asked_count,
          current_question_is_soft, hard_consistent, ret, stored>>

\* the session ids of the requests
SessionIds == {"s1"}
\* no row for a session id
Absent == {}
\* the table after init_db
NoSessions == [id \in SessionIds |-> Absent]

SeqRange(s) == {s[i] : i \in 1..Len(s)}

\* person_attributes_map.get(name, {}).get(attribute, 0)
AttrVal(map, name, attribute) ==
    IF name \in DOMAIN map /\ attribute \in DOMAIN map[name]
    THEN map[name][attribute]
    ELSE 0

\* probabilities.get(name, 0)
ProbGet(probs, name) == IF name \in DOMAIN probs THEN probs[name] ELSE Zero

\* n / sc < 1e-9
BelowEps(n, sc) == BLess(BMul(n, EpsDen), sc)
\* n / sc > 1e-9
AboveEps(n, sc) == BLess(sc, BMul(n, EpsDen))

RECURSIVE SumOver(_, _)
SumFrom(probs, S, n) == BAdd(probs[n], SumOver(probs, S \ {n}))

SumOver(probs, S) ==
    IF S = {} THEN Zero ELSE SumFrom(probs, S, CHOOSE m \in S : TRUE)

\* sum(probabilities.values()), as a numerator over the shared denominator
SumProbs(probs) == SumOver(probs, DOMAIN probs)

(***************************************************************************)
(* The same distribution has many numerator/denominator forms; Reduce      *)
(* picks one, so that equal float states are equal model states.  The      *)
(* numerators only ever gain factors 2 and 5.                              *)
(***************************************************************************)
AllZero(probs) == \A n \in DOMAIN probs : probs[n] = Zero

RECURSIVE ReduceBy(_, _, _)
ReduceBy(probs, sc, k) ==
    IF BDivides(k, sc) /\ \A n \in DOMAIN probs : BDivides(k, probs[n])
    THEN ReduceBy([n \in DOMAIN probs |-> BDivExact(probs[n], k)],
                  BDivExact(sc, k), k)
    ELSE [probabilities |-> probs, scale |-> sc]

ReduceAgain(r, k) == ReduceBy(r.probabilities, r.scale, k)

Reduce(probs, sc) ==
    IF AllZero(probs)
    THEN [probabilities |-> probs, scale |-> One]
    ELSE ReduceAgain(ReduceBy(probs, sc, 2), 5)

\* a value of ret: the call, and the fields of the dictionary it returned
Ret(call, status, name, cn, cd, message) ==
    [call |-> call, args |-> << >>, status |-> status, name |-> name,
     certainty |-> [num |-> cn, den |-> cd], message |-> message]

\* the same for a call with arguments
RetOf(call, args, status, message) ==
    [call |-> call, args |-> args, status |-> status, name |-> "None",
     certainty |-> [num |-> Zero, den |-> One], message |-> message]

NoRet == Ret("none", "", "None", Zero, One, "")

(***************************************************************************)
(* __init__: the catalog is loaded, the game state is empty.               *)
(***************************************************************************)
\* list(temp_attributes): the attributes in the order the set yields them,
\* which differs from one process to the next
AttributeOrders == {<<"a", "b">>, <<"b", "a">>}

Init ==
    /\ person_attributes_map = ScenarioCatalog
    /\ all_person_names = <<"X", "Y", "Z">>
    /\ all_available_attributes \in AttributeOrders
    /\ probabilities = [n \in {} |-> Zero]
    /\ scale = One
    /\ asked_attributes = {}
    /\ questions_asked_count = 0
    /\ current_question_is_soft = "none"
    /\ hard_consistent = {"X", "Y", "Z"}
    /\ ret = NoRet
    /\ stored = NoSessions

(***************************************************************************)
(* reset_game_state                                                        *)
(***************************************************************************)
UniformProbabilities(names) ==
    IF Len(names) = 0
    THEN [probabilities |-> [n \in {} |-> Zero], scale |-> One]
    ELSE [probabilities |-> [n \in SeqRange(names) |-> One],
          scale |-> FromNat(Len(names))]

reset_game_state ==
    /\ probabilities' = UniformProbabilities(all_person_names).probabilities
    /\ scale' = UniformProbabilities(all_person_names).scale
    /\ asked_attributes' = {}
    /\ questions_asked_count' = 0
    /\ current_question_is_soft' = "none"
    /\ hard_consistent' = SeqRange(all_person_names)
    /\ ret' = Ret("reset_game_state", "", "None", Zero, One, "")
    /\ UNCHANGED <<catalog_vars, stored>>

(***************************************************************************)
(* _update_probabilities                                                   *)
(***************************************************************************)
\* (mutant: < for <=)
IsSoftQuestion_Strict(count) == count < soft_elimination_questions_count

\* (mutant: one more soft question than the configured count)
IsSoftQuestion_OneMore(count) == count <= soft_elimination_questions_count + 1

\* current_question_is_soft, from the count record_answer_and_update has
\* already incremented
IsSoftQuestion(count) == count <= soft_elimination_questions_count

Regime(count) == IF IsSoftQuestion(count) THEN "soft" ELSE "hard"

\* (mutant: the soft loop sets a mismatch to 0, as the hard loop does)
SoftUpdate_Eliminates(probs, sc, map, attribute, user_answer) ==
    [probabilities |->
        [n \in DOMAIN probs |->
            IF BelowEps(probs[n], sc) THEN probs[n]
            ELSE IF AttrVal(map, n, attribute) = user_answer THEN probs[n]
            ELSE Zero],
     scale |-> sc]

\* the soft loop: a name below 1e-9 is skipped, a match is multiplied by
\* match_multiplier_soft, a mismatch by mismatch_multiplier_soft
SoftUpdate(probs, sc, map, attribute, user_answer) ==
    [probabilities |->
        [n \in DOMAIN probs |->
            IF BelowEps(probs[n], sc)
            THEN BMulSmall(probs[n], multiplier_soft_den)
            ELSE IF AttrVal(map, n, attribute) = user_answer
            THEN BMulSmall(probs[n], match_multiplier_soft_num)
            ELSE BMulSmall(probs[n], mismatch_multiplier_soft_num)],
     scale |-> BMulSmall(sc, multiplier_soft_den)]

\* the hard loop: a name below 1e-9 is skipped, a mismatch is set to 0
HardUpdate(probs, sc, map, attribute, user_answer) ==
    [probabilities |->
        [n \in DOMAIN probs |->
            IF BelowEps(probs[n], sc)
            THEN probs[n]
            ELSE IF AttrVal(map, n, attribute) # user_answer
            THEN Zero
            ELSE probs[n]],
     scale |-> sc]

\* the loops of the regime the count selects
ApplyRule(probs, sc, map, attribute, user_answer, count) ==
    IF IsSoftQuestion(count)
    THEN SoftUpdate(probs, sc, map, attribute, user_answer)
    ELSE HardUpdate(probs, sc, map, attribute, user_answer)

\* the division of every name of all_person_names by current_sum_probs,
\* given as a numerator over sc: numerator / sc divided by
\* current_sum_probs / sc is numerator / current_sum_probs
DivideBySum(probs, names, current_sum_probs) ==
    [ok |-> TRUE,
     probabilities |-> [n \in SeqRange(names) |-> ProbGet(probs, n)],
     scale |-> current_sum_probs]

\* (mutant: a sum below 1e-9 is not reported)
NormalizeBySum_NeverFails(probs, sc, names, current_sum_probs) ==
    IF BelowEps(current_sum_probs, sc)
    THEN [ok |-> TRUE, probabilities |-> probs, scale |-> sc]
    ELSE DivideBySum(probs, names, current_sum_probs)

\* (mutant: success is reported without the division by the sum)
NormalizeBySum_NoDivision(probs, sc, names, current_sum_probs) ==
    IF BelowEps(current_sum_probs, sc)
    THEN [ok |-> FALSE, probabilities |-> probs, scale |-> sc]
    ELSE [ok |-> TRUE, probabilities |-> probs, scale |-> sc]

\* lines 140-144: False and no division when the sum is below 1e-9
NormalizeBySum(probs, sc, names, current_sum_probs) ==
    IF BelowEps(current_sum_probs, sc)
    THEN [ok |-> FALSE, probabilities |-> probs, scale |-> sc]
    ELSE DivideBySum(probs, names, current_sum_probs)

\* lines 139-144
Normalize(r, names) ==
    NormalizeBySum(r.probabilities, r.scale, names, SumProbs(r.probabilities))

UpdateProbabilities(probs, sc, map, names, attribute, user_answer, count) ==
    Normalize(ApplyRule(probs, sc, map, attribute, user_answer, count), names)

(***************************************************************************)
(* record_answer_and_update(attribute, user_answer_binary)                 *)
(***************************************************************************)
\* (mutant: the membership test is missing)
IsValidAttribute_Unchecked(attribute, attributes) == TRUE

\* attribute in all_available_attributes
IsValidAttribute(attribute, attributes) == attribute \in SeqRange(attributes)

\* (mutant: the answer is not counted)
CountAfterAnswer_Unchanged(count) == count

\* questions_asked_count += 1
CountAfterAnswer(count) == count + 1

\* (mutant: the attribute is not recorded)
AskedAfterAnswer_Forgets(asked, attribute) == asked

\* asked_attributes.add(attribute)
AskedAfterAnswer(asked, attribute) == asked \cup {attribute}

\* the names of S whose value of attribute is user_answer
Matching(S, map, attribute, user_answer) ==
    {n \in S : AttrVal(map, n, attribute) = user_answer}

record_answer_and_update(attribute, user_answer_binary) ==
    IF ~IsValidAttribute(attribute, all_available_attributes)
    THEN /\ ret' = RetOf("record_answer_and_update",
                         <<attribute, user_answer_binary>>, "error",
                         "Invalid attribute.")
         /\ UNCHANGED <<catalog_vars, stored, game_vars, current_question_is_soft,
                        hard_consistent>>
    ELSE /\ questions_asked_count < MaxQuestions
         /\ questions_asked_count' = CountAfterAnswer(questions_asked_count)
         /\ asked_attributes' = AskedAfterAnswer(asked_attributes, attribute)
         /\ current_question_is_soft' =
                Regime(CountAfterAnswer(questions_asked_count))
         /\ hard_consistent' =
                IF IsSoftQuestion(CountAfterAnswer(questions_asked_count))
                THEN hard_consistent
                ELSE Matching(hard_consistent, person_attributes_map,
                              attribute, user_answer_binary)
         /\ \E u \in {UpdateProbabilities(probabilities, scale,
                         person_attributes_map, all_person_names, attribute,
                         user_answer_binary,
                         CountAfterAnswer(questions_asked_count))} :
              \E r \in {Reduce(u.probabilities, u.scale)} :
                /\ probabilities' = r.probabilities
                /\ scale' = r.scale
                /\ ret' = IF u.ok
                          THEN RetOf("record_answer_and_update",
                                     <<attribute, user_answer_binary>>,
                                     "updated", "")
                          ELSE RetOf("record_answer_and_update",
                                     <<attribute, user_answer_binary>>,
                                     "contradiction",
                                     "Your answers seem to contradict")
         /\ UNCHANGED <<catalog_vars, stored>>

(***************************************************************************)
(* handle_wrong_guess(guessed_name)                                        *)
(***************************************************************************)
\* probabilities[guessed_name] *= 0.01
Penalize(probs, sc, guessed_name) ==
    [probabilities |->
        [n \in DOMAIN probs |->
            IF n = guessed_name THEN probs[n]
            ELSE BMulSmall(probs[n], wrong_guess_penalty_den)],
     scale |-> BMulSmall(sc, wrong_guess_penalty_den)]

\* (mutant: the penalised values are not divided by their sum)
RenormalizeBySum_Never(probs, sc, current_sum_probs) ==
    [probabilities |-> probs, scale |-> sc]

\* the division is done only when the sum is above 1e-9
RenormalizeBySum(probs, sc, current_sum_probs) ==
    IF AboveEps(current_sum_probs, sc)
    THEN [probabilities |-> probs, scale |-> current_sum_probs]
    ELSE [probabilities |-> probs, scale |-> sc]

RenormalizeAfterPenalty(q) ==
    RenormalizeBySum(q.probabilities, q.scale, SumProbs(q.probabilities))

\* lines 318-322
PenalizeAndRenormalize(probs, sc, guessed_name) ==
    RenormalizeAfterPenalty(Penalize(probs, sc, guessed_name))

\* 10 ^ k
RECURSIVE BPow10(_)
BPow10(k) == IF k = 0 THEN One ELSE BMulSmall(BPow10(k - 1), 10)

\* the bound of the model on repeated penalties
WithinPenaltyDepth(n, sc) ==
    n = Zero \/ BLeq(sc, BMul(n, BPow10(MaxPenaltyDepth)))

\* (mutant: no name is recognised)
IsKnownGuess_Never(guessed_name, probs) == FALSE

IsKnownGuess(guessed_name, probs) ==
    guessed_name # "" /\ guessed_name \in DOMAIN probs

handle_wrong_guess(guessed_name) ==
    IF IsKnownGuess(guessed_name, probabilities)
    THEN /\ WithinPenaltyDepth(probabilities[guessed_name], scale)
         /\ \E u \in {PenalizeAndRenormalize(probabilities, scale,
                                                guessed_name)} :
              \E r \in {Reduce(u.probabilities, u.scale)} :
                /\ probabilities' = r.probabilities
                /\ scale' = r.scale
         /\ ret' = RetOf("handle_wrong_guess", <<guessed_name>>, "True", "")
         /\ UNCHANGED <<catalog_vars, stored, asked_attributes, questions_asked_count,
                        current_question_is_soft, hard_consistent>>
    ELSE /\ ret' = RetOf("handle_wrong_guess", <<guessed_name>>, "False", "")
         /\ UNCHANGED <<catalog_vars, stored, game_vars, current_question_is_soft,
                        hard_consistent>>

(***************************************************************************)
(* _get_current_guess_info and get_guess_if_ready                          *)
(***************************************************************************)
\* the names with probability > 1e-9
ActiveNames(probs, sc) == {n \in DOMAIN probs : AboveEps(probs[n], sc)}

\* n is active and no active name has a larger probability
IsMaxActive(n, probs, active) ==
    n \in active /\ \A m \in active : BLeq(probs[m], probs[n])

\* max(active_probs, key=active_probs.get): the first name, in the order of
\* the dictionary, that no active name exceeds
BestAmong(probs, active, names) ==
    IF active = {} THEN "None"
    ELSE names[CHOOSE i \in 1..Len(names) :
                   /\ IsMaxActive(names[i], probs, active)
                   /\ \A j \in 1..(i - 1) : ~IsMaxActive(names[j], probs, active)]

BestCandidate(probs, sc, names) == BestAmong(probs, ActiveNames(probs, sc), names)

\* (mutant: > for >=)
AtLeastCertain_Strict(n, sc) ==
    BLess(BMulSmall(sc, certainty_threshold_num),
          BMulSmall(n, certainty_threshold_den))

\* current_max_certainty >= certainty_threshold
AtLeastCertain(n, sc) ==
    BLeq(BMulSmall(sc, certainty_threshold_num),
         BMulSmall(n, certainty_threshold_den))

\* current_max_certainty > 0.01
AboveGuessFloor(n, sc) == BLess(sc, BMulSmall(n, guess_floor_den))

\* (mutant: the test waits for the minimum number of questions)
NoOneMatches_AfterMinimum(remaining, count) ==
    remaining = 0 /\ count >= min_questions_before_confident_guess

\* remaining_candidates_count == 0 and questions_asked_count > 0
NoOneMatches(remaining, count) == remaining = 0 /\ count > 0

\* (mutant: > for >=)
AllQuestionsAsked_Strict(asked, attributes) ==
    Cardinality(asked) > Len(attributes)

\* (mutant: the test of line 307 never succeeds)
AllQuestionsAsked_Never(asked, attributes) == FALSE

\* len(asked_attributes) >= len(all_available_attributes)
AllQuestionsAsked(asked, attributes) == Cardinality(asked) >= Len(attributes)

\* (mutant: a confident guess does not wait for the minimum of questions)
MinQuestionsMet_Always(count) == TRUE

\* questions_asked_count >= min_questions_before_confident_guess
MinQuestionsMet(count) == count >= min_questions_before_confident_guess

\* lines 298-313, from the best name, its probability maxp / maxd and the
\* number of active names
GuessDecision(best, maxp, maxd, remaining, asked, count, attributes) ==
    IF NoOneMatches(remaining, count)
    THEN Ret("get_guess_if_ready", "guess", "None", Zero, One,
             "No one matches your answers.")
    ELSE IF /\ MinQuestionsMet(count)
            /\ \/ AtLeastCertain(maxp, maxd)
               \/ remaining = 1 /\ AboveGuessFloor(maxp, maxd)
    THEN IF remaining > 1
         THEN Ret("get_guess_if_ready", "guess", best, maxp, maxd, "")
         ELSE Ret("get_guess_if_ready", "guess", best, One, One, "")
    ELSE IF AllQuestionsAsked(asked, attributes)
    THEN IF best # "None" /\ AboveGuessFloor(maxp, maxd)
         THEN Ret("get_guess_if_ready", "guess", best, maxp, maxd,
                  "All questions asked.")
         ELSE Ret("get_guess_if_ready", "guess", "None", Zero, One,
                  "Stumped after all questions.")
    ELSE Ret("get_guess_if_ready", "ask_more", "None", Zero, One, "")

\* _get_current_guess_info: (name, probability), (None, 0) without active name
GuessWithBest(best, probs, sc, asked, count, attributes) ==
    GuessDecision(best,
                  IF best = "None" THEN Zero ELSE probs[best],
                  IF best = "None" THEN One ELSE sc,
                  Cardinality(ActiveNames(probs, sc)),
                  asked, count, attributes)

GetGuessIfReady(probs, sc, asked, count, attributes, names) ==
    GuessWithBest(BestCandidate(probs, sc, names), probs, sc, asked, count,
                  attributes)

get_guess_if_ready ==
    /\ ret' = GetGuessIfReady(probabilities, scale, asked_attributes,
                              questions_asked_count, all_available_attributes,
                              all_person_names)
    /\ UNCHANGED <<catalog_vars, stored, game_vars, current_question_is_soft,
                   hard_consistent>>

(***************************************************************************)
(* _get_top_k_candidates, _calculate_info_gain_for_subset and              *)
(* select_next_question.                                                   *)
(*                                                                         *)
(* The information gain of an attribute over a subset is                   *)
(* current_subset_entropy - expected_entropy; every name has one value of  *)
(* the attribute, so it is the entropy h(weight_yes) of the answer, which  *)
(* grows with min(weight_yes, weight_no) and is 0 when one of the two is   *)
(* 0.  On the exact probabilities of a game the gains are compared through *)
(* that smaller weight (SmallerWeight); the entropies themselves are       *)
(* computed, as the code computes them, in the section "Entropy" below,    *)
(* where the two orders are compared.                                      *)
(***************************************************************************)
top_k_candidates_focus == 5

\* the position of name in the dictionary
RECURSIVE IndexFrom(_, _, _)
IndexFrom(names, name, i) ==
    IF i > Len(names) THEN 0
    ELSE IF names[i] = name THEN i
    ELSE IndexFrom(names, name, i + 1)

IndexOf(names, name) == IndexFrom(names, name, 1)

\* m comes before n in sorted(active_probs.items(), key=prob, reverse=True):
\* larger probability first, the order of the dictionary on equal ones
SortsBefore(m, n, probs, names) ==
    \/ BLess(probs[n], probs[m])
    \/ probs[m] = probs[n] /\ IndexOf(names, m) < IndexOf(names, n)

\* _get_top_k_candidates(k): the first k names of the sorted active names
GetTopKAmong(active, probs, names, k) ==
    {n \in active :
        Cardinality({m \in active : SortsBefore(m, n, probs, names)}) < k}

GetTopKCandidates(probs, sc, names, k) ==
    GetTopKAmong(ActiveNames(probs, sc), probs, names, k)

\* (mutant: only the first attribute of the catalog is considered)
UnaskedAttributes_OnlyFirst(attributes, asked) ==
    SelectSeq(SubSeq(attributes, 1, 1), LAMBDA attr : attr \notin asked)

\* [attr for attr in all_available_attributes if attr not in asked_attributes]
UnaskedAttributes(attributes, asked) ==
    SelectSeq(attributes, LAMBDA attr : attr \notin asked)

\* prob_ans_yes_for_subset (value 1) and prob_ans_no_for_subset (any other
\* value) of an attribute, as numerators
WeightOfAnswer(probs, subset, map, attribute, yes) ==
    SumOver(probs, {n \in subset : (AttrVal(map, n, attribute) = 1) = yes})

BMin(a, b) == IF BLess(b, a) THEN b ELSE a

\* the smaller of the two weights: what the information gain grows with
SmallerWeight(probs, subset, map, attribute) ==
    BMin(WeightOfAnswer(probs, subset, map, attribute, TRUE),
         WeightOfAnswer(probs, subset, map, attribute, FALSE))

\* the loop of lines 168-198 over the gains: the first attribute whose gain
\* no attribute exceeds (the comparison is strict, max_info_gain starts
\* at -1.0)
RECURSIVE BestGainFrom(_, _, _, _)
BestGainFrom(gains, i, best, max_gain) ==
    IF i > Len(gains) THEN best
    ELSE IF best = 0 \/ BLess(max_gain, gains[i])
    THEN BestGainFrom(gains, i + 1, i, gains[i])
    ELSE BestGainFrom(gains, i + 1, best, max_gain)

\* lines 200-202: max_info_gain > 1e-9.  A weight that is not 0 is the
\* weight of a name above 1e-9, and h(1e-9) > 1e-9
BestIfGain(gains, attributes_to_evaluate, best) ==
    IF best # 0 /\ gains[best] # Zero
    THEN attributes_to_evaluate[best]
    ELSE "None"

BestAttributeByGain(gains, attributes_to_evaluate) ==
    BestIfGain(gains, attributes_to_evaluate, BestGainFrom(gains, 1, 0, Zero))

\* lines 156-160: the names of the subset above 1e-9, and their sum
SubsetProbsDict(probs, sc, subset) ==
    {n \in subset : n \in DOMAIN probs /\ AboveEps(probs[n], sc)}

\* (mutant: a single candidate is never evaluated)
SingleCandidateConverged_Always(subset, count) == Cardinality(subset) = 1

\* line 154
SingleCandidateConverged(subset, count) ==
    Cardinality(subset) = 1 /\ count >= min_questions_before_confident_guess

CalculateInfoGainForSubset(probs, sc, map, count, candidate_names_subset, attributes_to_evaluate) ==
    IF candidate_names_subset = {} THEN "None"
    ELSE IF SingleCandidateConverged(candidate_names_subset, count) THEN "None"
    ELSE IF SubsetProbsDict(probs, sc, candidate_names_subset) = {} THEN "None"
    ELSE IF BelowEps(SumOver(probs, SubsetProbsDict(probs, sc,
                                        candidate_names_subset)), sc)
    THEN "None"
    ELSE BestAttributeByGain(
             [i \in 1..Len(attributes_to_evaluate) |->
                 SmallerWeight(probs, candidate_names_subset, map,
                               attributes_to_evaluate[i])],
             attributes_to_evaluate)

\* lines 256-261: the unasked attributes on which the active names differ
CanDifferentiate(map, active, attribute) ==
    Cardinality({AttrVal(map, n, attribute) : n \in active}) > 1

\* (mutant: without the last resort of line 262)
LastResort_None(unasked) == "None"

\* line 262
LastResort(unasked) == IF unasked = << >> THEN "None" ELSE unasked[1]

Fallback(map, active, unasked) ==
    IF \E i \in 1..Len(unasked) : CanDifferentiate(map, active, unasked[i])
    THEN unasked[CHOOSE i \in 1..Len(unasked) :
                    /\ CanDifferentiate(map, active, unasked[i])
                    /\ \A j \in 1..(i - 1) :
                           ~CanDifferentiate(map, active, unasked[j])]
    ELSE LastResort(unasked)

\* lines 251-262
GeneralQuestion(question, map, active, unasked) ==
    IF question # "None" THEN question ELSE Fallback(map, active, unasked)

\* lines 244-249: the focus on the top candidates after the soft questions
FocusedQuestion(probs, sc, map, count, top_k_names, unasked) ==
    IF count > soft_elimination_questions_count /\ Cardinality(top_k_names) >= 2
    THEN CalculateInfoGainForSubset(probs, sc, map, count, top_k_names, unasked)
    ELSE "None"

QuestionFor(focused_question, probs, sc, map, count, active, unasked) ==
    IF focused_question # "None" THEN focused_question
    ELSE GeneralQuestion(
             CalculateInfoGainForSubset(probs, sc, map, count, active, unasked),
             map, active, unasked)

QuestionAmong(probs, sc, map, count, names, active, unasked) ==
    IF unasked = << >> THEN "None"
    ELSE IF active = {} THEN "None"
    ELSE QuestionFor(
             FocusedQuestion(probs, sc, map, count,
                             GetTopKAmong(active, probs, names,
                                          top_k_candidates_focus),
                             unasked),
             probs, sc, map, count, active, unasked)

SelectNextQuestion(probs, sc, map, asked, count, attributes, names) ==
    QuestionAmong(probs, sc, map, count, names, ActiveNames(probs, sc),
                  UnaskedAttributes(attributes, asked))

\* the result of select_next_question: name is the attribute, or "None"
QuestionRet(question) ==
    Ret("select_next_question",
        IF question = "None" THEN "none" ELSE "question",
        question, Zero, One, "")

\* (mutant: the selected attribute is recorded as asked by the selection)
select_next_question_MarksAsked ==
    /\ \E question \in {SelectNextQuestion(probabilities, scale,
                             person_attributes_map, asked_attributes,
                             questions_asked_count, all_available_attributes,
                             all_person_names)} :
         /\ ret' = QuestionRet(question)
         /\ asked_attributes' =
                IF question = "None" THEN asked_attributes
                ELSE asked_attributes \cup {question}
    /\ UNCHANGED <<catalog_vars, stored, probabilities, scale,
                   questions_asked_count, current_question_is_soft,
                   hard_consistent>>

select_next_question ==
    /\ ret' = QuestionRet(SelectNextQuestion(probabilities, scale,
                              person_attributes_map, asked_attributes,
                              questions_asked_count, all_available_attributes,
                              all_person_names))
    /\ UNCHANGED <<catalog_vars, stored, game_vars, current_question_is_soft,
                   hard_consistent>>

(***************************************************************************)
(* Any sequence of calls on one engine.                                    *)
(***************************************************************************)
Next ==
    \/ reset_game_state
    \/ \E attribute \in AttributeInputs, answer \in {0, 1} :
           record_answer_and_update(attribute, answer)
    \/ \E name \in NameInputs : handle_wrong_guess(name)
    \/ get_guess_if_ready
    \/ select_next_question

Spec == Init /\ [][Next]_vars

(***************************************************************************)
(* get_guess_if_ready on its own: it reads the belief state and changes    *)
(* nothing, so it is applied to every normalised belief state whose        *)
(* probabilities are multiples of 1 / GuessGrid (0.85 = 17/20 is one).     *)
(***************************************************************************)
InitGuess ==
    /\ person_attributes_map = ScenarioCatalog
    /\ all_person_names = <<"X", "Y", "Z">>
    /\ all_available_attributes = <<"a", "b">>
    /\ \E f \in [{"X", "Y", "Z"} -> 0..GuessGrid] :
           /\ f["X"] + f["Y"] + f["Z"] = GuessGrid
           /\ probabilities = [n \in {"X", "Y", "Z"} |-> FromNat(f[n])]
    /\ scale = FromNat(GuessGrid)
    /\ questions_asked_count \in 0..MaxQuestions
    /\ asked_attributes \in SUBSET {"a", "b"}
    /\ Cardinality(asked_attributes) <= questions_asked_count
    /\ current_question_is_soft =
           IF questions_asked_count = 0 THEN "none"
           ELSE Regime(questions_asked_count)
    /\ hard_consistent = {"X", "Y", "Z"}
    /\ ret = NoRet
    /\ stored = NoSessions

NextGuess == get_guess_if_ready

SpecGuess == InitGuess /\ [][NextGuess]_vars

(***************************************************************************)
(* Properties.                                                             *)
(***************************************************************************)
AttributeSet == SeqRange(all_available_attributes)

\* the last call was a record_answer_and_update that processed its answer
IsProcessedAnswer ==
    /\ ret.call = "record_answer_and_update"
    /\ ret.status \in {"updated", "contradiction"}

IsGuessCall == ret.call = "get_guess_if_ready"

\* | sum / sc - 1 | <= 1e-9
SumWithinEpsOfOne(probs, sc) ==
    /\ BLeq(BMul(SumProbs(probs), EpsDen), BAdd(BMul(sc, EpsDen), sc))
    /\ BLeq(BMul(sc, EpsDen), BAdd(BMul(SumProbs(probs), EpsDen), sc))

\* the names with probability > 1e-9
Candidates == {n \in DOMAIN probabilities :
                   BLess(scale, BMul(probabilities[n], EpsDen))}

\* n is a candidate no candidate is more probable than
IsMostProbable(n) ==
    /\ n \in Candidates
    /\ \A m \in Candidates : ~BLess(probabilities[n], probabilities[m])

\* probabilities[n] / scale > 1 / 100
AboveOnePercent(n) == BLess(scale, BMulSmall(probabilities[n], 100))

\* probabilities[n] / scale >= 85 / 100
AtLeast85Percent(n) ==
    ~BLess(BMulSmall(probabilities[n], 100), BMulSmall(scale, 85))

\* the belief state a rule leaves, normalised as lines 139-144 do
DistributionOf(u) == Reduce(u.probabilities, u.scale)

OutcomeOf(rule) == DistributionOf(Normalize(rule, all_person_names))

\* C1: after a record_answer_and_update that reports "updated", the
\* probabilities of all identities sum to 1 within 1e-9
C1_SumIsOneAfterUpdate ==
    (ret.call = "record_answer_and_update" /\ ret.status = "updated")
        => SumWithinEpsOfOne(probabilities, scale)

\* an update succeeded in the hard regime and eliminated an identity
C1_Witness ==
    /\ ret.call = "record_answer_and_update" /\ ret.status = "updated"
    /\ current_question_is_soft = "hard"
    /\ \E n \in DOMAIN probabilities : probabilities[n] = Zero
    /\ \E n \in DOMAIN probabilities : probabilities[n] # Zero

\* C2: after a hard-regime answer every identity whose value of the
\* attribute differs from the answer has probability exactly 0
C2_HardMismatchIsZero ==
    (IsProcessedAnswer /\ current_question_is_soft = "hard")
        => \A n \in DOMAIN probabilities :
               AttrVal(person_attributes_map, n, ret.args[1]) # ret.args[2]
                   => probabilities[n] = Zero

\* C3: an answer is processed in the soft regime exactly when the count,
\* after its increment, is <= soft_elimination_questions_count, else in the
\* hard regime; and within a game no soft answer follows a hard one
C3_RegimeByCountOneWay ==
    [][ /\ IsProcessedAnswer' =>
              /\ (current_question_is_soft' = "soft")
                    <=> (questions_asked_count' <= 3)
              /\ (current_question_is_soft' = "hard")
                    <=> (questions_asked_count' > 3)
        /\ (current_question_is_soft = "hard"
              /\ ret'.call # "reset_game_state")
              => current_question_is_soft' # "soft" ]_vars

\* a second answer in a row was processed in the hard regime
C3_Witness ==
    /\ IsProcessedAnswer
    /\ current_question_is_soft = "hard"
    /\ questions_asked_count = soft_elimination_questions_count + 2

\* C4 (as claimed): the answers 1 .. soft_elimination_questions_count + 1
\* of a game are processed with the soft rules
C4_FirstFourAnswersSoft ==
    [][ (IsProcessedAnswer'
           /\ questions_asked_count' <= soft_elimination_questions_count + 1)
          => [probabilities |-> probabilities', scale |-> scale'] =
                 OutcomeOf(SoftUpdate(probabilities, scale,
                                      person_attributes_map,
                                      ret'.args[1], ret'.args[2])) ]_vars

\* C4 (amended): the answers 1 .. soft_elimination_questions_count of a game
\* are processed with the soft rules, and every later answer, from answer
\* soft_elimination_questions_count + 1 on, with the hard rules
C4_SoftUpToThresholdThenHard ==
    [][ IsProcessedAnswer' =>
          [probabilities |-> probabilities', scale |-> scale'] =
              IF questions_asked_count' <= soft_elimination_questions_count
              THEN OutcomeOf(SoftUpdate(probabilities, scale,
                                        person_attributes_map,
                                        ret'.args[1], ret'.args[2]))
              ELSE OutcomeOf(HardUpdate(probabilities, scale,
                                        person_attributes_map,
                                        ret'.args[1], ret'.args[2])) ]_vars

\* the fourth answer of a game eliminated an identity
C4_Witness ==
    /\ IsProcessedAnswer /\ ret.status = "updated"
    /\ questions_asked_count = soft_elimination_questions_count + 1
    /\ \E n \in DOMAIN probabilities :
           /\ probabilities[n] = Zero
           /\ AttrVal(person_attributes_map, n, ret.args[1]) # ret.args[2]

\* C5: a record_answer_and_update with an attribute of the catalog adds 1
\* to questions_asked_count and the attribute to asked_attributes, on
\* success and on contradiction; between resets the count never decreases
\* and asked_attributes only grows; asked_attributes holds catalog attributes
C5_CountAndAskedGrow ==
    [][ /\ (ret'.call = "record_answer_and_update"
              /\ ret'.args[1] \in AttributeSet)
              => /\ ret'.status \in {"updated", "contradiction"}
                 /\ questions_asked_count' = questions_asked_count + 1
                 /\ asked_attributes' = asked_attributes \cup {ret'.args[1]}
        /\ ret'.call # "reset_game_state"
              => /\ questions_asked_count' >= questions_asked_count
                 /\ asked_attributes \subseteq asked_attributes'
        /\ asked_attributes' \subseteq AttributeSet ]_vars

\* an answer that reported a contradiction was counted and recorded
C5_Witness ==
    /\ ret.call = "record_answer_and_update"
    /\ ret.status = "contradiction"
    /\ questions_asked_count = MaxQuestions
    /\ ret.args[1] \in asked_attributes
    /\ probabilities # << >>

\* C6: record_answer_and_update with an attribute that is not in the
\* catalog returns the error result, not the contradiction result, and
\* leaves probabilities, asked_attributes and questions_asked_count unchanged
C6_InvalidAttributeRejected ==
    [][ (ret'.call = "record_answer_and_update"
           /\ ret'.args[1] \notin AttributeSet)
          => /\ ret'.status = "error"
             /\ ret'.message = "Invalid attribute."
             /\ probabilities' = probabilities
             /\ scale' = scale
             /\ asked_attributes' = asked_attributes
             /\ questions_asked_count' = questions_asked_count ]_vars

\* an unknown attribute was rejected in the middle of a game
C6_Witness ==
    /\ ret.call = "record_answer_and_update"
    /\ ret.status = "error"
    /\ ret.args[1] \notin AttributeSet
    /\ questions_asked_count > 0
    /\ asked_attributes # {}

\* the sum the rule of the regime of count leaves is below 1e-9
RuleSumBelowEps(attribute, answer, count) ==
    LET r == ApplyRule(probabilities, scale, person_attributes_map,
                       attribute, answer, count)
    IN  BelowEps(SumProbs(r.probabilities), r.scale)

\* the belief state the rule of the regime of count leaves, not normalised
RuleUnnormalized(attribute, answer, count) ==
    LET r == ApplyRule(probabilities, scale, person_attributes_map,
                       attribute, answer, count)
    IN  Reduce(r.probabilities, r.scale)

\* C7: an answer reports a contradiction exactly when the sum after the
\* rule of its regime is below 1e-9, and then nothing is renormalised; and
\* a hard-regime answer after which no identity matches all the hard-regime
\* answers of the game reports a contradiction and leaves every probability
\* below 1e-9
C7_ContradictionWhenNoneConsistent ==
    [][ IsProcessedAnswer' =>
          /\ (ret'.status = "contradiction")
                <=> RuleSumBelowEps(ret'.args[1], ret'.args[2],
                                    questions_asked_count')
          /\ ret'.status = "contradiction"
                => [probabilities |-> probabilities', scale |-> scale'] =
                       RuleUnnormalized(ret'.args[1], ret'.args[2],
                                        questions_asked_count')
          /\ (current_question_is_soft' = "hard" /\ hard_consistent' = {})
                => /\ ret'.status = "contradiction"
                   /\ \A n \in DOMAIN probabilities' :
                          BelowEps(probabilities'[n], scale') ]_vars

\* C7, its first sentence alone: an answer reports a contradiction exactly
\* when the sum after the rule of its regime is below 1e-9, and then nothing
\* is renormalised and every probability is below 1e-9
ContradictionIffSumBelowEps ==
    [][ IsProcessedAnswer' =>
          /\ (ret'.status = "contradiction")
                <=> RuleSumBelowEps(ret'.args[1], ret'.args[2],
                                    questions_asked_count')
          /\ ret'.status = "contradiction"
                => /\ [probabilities |-> probabilities', scale |-> scale'] =
                          RuleUnnormalized(ret'.args[1], ret'.args[2],
                                           questions_asked_count')
                   /\ \A n \in DOMAIN probabilities' :
                          BelowEps(probabilities'[n], scale') ]_vars

\* the certainty get_guess_if_ready returned is probabilities[n] / scale
CertaintyIsProbabilityOf(n) ==
    BMul(ret.certainty.num, scale) = BMul(probabilities[n], ret.certainty.den)

\* C8: with a candidate left, questions_asked_count >= 5 and the best
\* probability >= 0.85, or exactly one candidate left whose probability is
\* > 0.01, get_guess_if_ready returns a guess that names a most probable
\* identity, with certainty 1.0 when one candidate is left and the best
\* probability otherwise
C8_GuessWhenReady ==
    (/\ IsGuessCall
     /\ Candidates # {}
     /\ questions_asked_count >= 5
     /\ \/ \E n \in Candidates : AtLeast85Percent(n)
        \/ /\ Cardinality(Candidates) = 1
           /\ \E n \in Candidates : AboveOnePercent(n))
        => /\ ret.status = "guess"
           /\ IsMostProbable(ret.name)
           /\ IF Cardinality(Candidates) = 1
              THEN ret.certainty = [num |-> One, den |-> One]
              ELSE CertaintyIsProbabilityOf(ret.name)

\* a guess was returned at the boundary: the fifth question, two candidates,
\* the best one at exactly 0.85
C8_Witness ==
    /\ IsGuessCall /\ ret.status = "guess"
    /\ questions_asked_count = 5
    /\ Cardinality(Candidates) = 2
    /\ ret.name \in Candidates
    /\ BMulSmall(probabilities[ret.name], 100) = BMulSmall(scale, 85)

\* C9: when every attribute of the catalog has been asked,
\* get_guess_if_ready does not return ask_more: it returns a guess that
\* names a most probable identity if one has probability > 0.01, and a
\* guess without identity otherwise
C9_NoAskMoreWhenAllAsked ==
    (IsGuessCall
       /\ Cardinality(asked_attributes) >= Len(all_available_attributes))
        => /\ ret.status = "guess"
           /\ IF \E n \in Candidates : IsMostProbable(n) /\ AboveOnePercent(n)
              THEN IsMostProbable(ret.name)
              ELSE ret.name = "None"

\* every attribute was asked before the minimum number of questions, and
\* the guess names an identity that is not the only candidate
C9_Witness ==
    /\ IsGuessCall /\ ret.status = "guess"
    /\ asked_attributes = AttributeSet
    /\ questions_asked_count < min_questions_before_confident_guess
    /\ ret.name \in Candidates
    /\ Cardinality(Candidates) > 1
    /\ ret.message = "All questions asked."

\* C10: with no identity above 1e-9 and questions_asked_count > 0,
\* get_guess_if_ready returns the result "No one matches your answers."
\* without identity, whatever the count and the attributes asked
C10_NoOneMatches ==
    (IsGuessCall /\ Candidates = {} /\ questions_asked_count > 0)
        => /\ ret.status = "guess"
           /\ ret.name = "None"
           /\ ret.certainty.num = Zero
           /\ ret.message = "No one matches your answers."

\* the result was returned in a game (probabilities loaded) before the
\* minimum number of questions and before every attribute was asked
C10_Witness ==
    /\ IsGuessCall /\ ret.message = "No one matches your answers."
    /\ DOMAIN probabilities = SeqRange(all_person_names)
    /\ questions_asked_count < min_questions_before_confident_guess
    /\ Cardinality(asked_attributes) < Len(all_available_attributes)

IsQuestionCall == ret.call = "select_next_question"

\* the attributes of the catalog that were not asked
Unasked == AttributeSet \ asked_attributes

\* C11: select_next_question returns none exactly when no unasked attribute
\* remains or no identity is above 1e-9; in every other state it returns an
\* attribute of the catalog that was not asked
C11_QuestionUnlessNothingLeft ==
    IsQuestionCall
        => /\ (ret.name = "None") <=> (Unasked = {} \/ Candidates = {})
           /\ ret.name # "None" => ret.name \in Unasked

\* the last resort: a question was returned although the candidates, more
\* than one, have the same value of every unasked attribute
C11_Witness ==
    /\ IsQuestionCall /\ ret.name \in Unasked
    /\ Cardinality(Candidates) > 1
    /\ \A attr \in Unasked :
           ~CanDifferentiate(person_attributes_map, Candidates, attr)

\* the last call was a handle_wrong_guess that penalised a known identity
IsPenalty == ret.call = "handle_wrong_guess" /\ ret.status = "True"

\* C12: a handle_wrong_guess on a known identity of probability above 0,
\* in a normalised state, strictly decreases the share of that identity in
\* the probability mass, also when it is the only identity above 0
C12_PenaltyStrictlyDecreasesShare ==
    [][ (/\ IsPenalty'
         /\ SumWithinEpsOfOne(probabilities, scale)
         /\ probabilities[ret'.args[1]] # Zero)
          => BLess(BMul(probabilities'[ret'.args[1]], scale),
                   BMul(probabilities[ret'.args[1]], scale')) ]_vars

(***************************************************************************)
(* __init__ and _load_data_into_memory on a dataset given by the caller.   *)
(***************************************************************************)
\* the datasets: a file that cannot be read, the empty list, one identity,
\* and the three identities of ScenarioCatalog
DatasetInputs ==
    {"unloadable",
     << >>,
     <<[name |-> "W", attributes |-> [a |-> 1]]>>,
     <<[name |-> "X", attributes |-> [a |-> 1]],
       [name |-> "Y", attributes |-> [a |-> 0, b |-> 1]],
       [name |-> "Z", attributes |-> [a |-> 1, b |-> 1]]>>}

\* lines 46-85: data_list, empty when the file cannot be loaded
DataList(dataset) == IF dataset = "unloadable" THEN << >> ELSE dataset

\* line 87
PersonAttributesMap(data_list) ==
    [n \in {data_list[i].name : i \in 1..Len(data_list)} |->
        data_list[CHOOSE i \in 1..Len(data_list) :
                      /\ data_list[i].name = n
                      /\ \A j \in (i + 1)..Len(data_list) :
                             data_list[j].name # n].attributes]

\* line 88: the keys in the order of the data list
AllPersonNames(data_list) == [i \in 1..Len(data_list) |-> data_list[i].name]

\* lines 90-92
TempAttributes(map) == UNION {DOMAIN map[n] : n \in DOMAIN map}

\* line 93: list(temp_attributes), in any order
ListsOf(S) ==
    {q \in [1..Cardinality(S) -> S] : \A e \in S : \E i \in DOMAIN q : q[i] = e}

\* (mutant: the engine is constructed whatever was loaded)
RaisesValueError_Never(map) == FALSE

\* lines 18-19: if not self.person_attributes_map: raise ValueError
RaisesValueError(map) == DOMAIN map = {}

ConstructionRet(map) ==
    IF RaisesValueError(map)
    THEN Ret("__init__", "ValueError", "None", Zero, One,
             "Dataset could not be loaded or is empty.")
    ELSE Ret("__init__", "constructed", "None", Zero, One, "")

InitLoad ==
    \E dataset \in DatasetInputs :
        /\ person_attributes_map = PersonAttributesMap(DataList(dataset))
        /\ all_person_names = AllPersonNames(DataList(dataset))
        /\ all_available_attributes \in
               ListsOf(TempAttributes(PersonAttributesMap(DataList(dataset))))
        /\ probabilities = [n \in {} |-> Zero]
        /\ scale = One
        /\ asked_attributes = {}
        /\ questions_asked_count = 0
        /\ current_question_is_soft = "none"
        /\ hard_consistent = SeqRange(AllPersonNames(DataList(dataset)))
        /\ ret = ConstructionRet(PersonAttributesMap(DataList(dataset)))
        /\ stored = NoSessions

\* a method is called on an engine only if its construction did not raise
EngineExists == ~RaisesValueError(person_attributes_map)

NextLoad ==
    \/ EngineExists /\ reset_game_state
    \/ EngineExists /\ \E attribute \in AttributeInputs, answer \in {0, 1} :
                           record_answer_and_update(attribute, answer)
    \/ EngineExists /\ select_next_question

SpecLoad == InitLoad /\ [][NextLoad]_vars

\* C13: reset_game_state on a non-empty catalog leaves probability exactly
\* 1/|identities| for every identity, no asked attribute and count 0; with
\* an empty or unloadable catalog the construction raises the configuration
\* error and no call is ever made on the engine
C13_UniformAfterResetOrNoEngine ==
    /\ ret.call = "reset_game_state"
         => /\ Len(all_person_names) > 0
            /\ DOMAIN probabilities = SeqRange(all_person_names)
            /\ \A n \in DOMAIN probabilities :
                   BMulSmall(probabilities[n], Len(all_person_names)) = scale
            /\ asked_attributes = {}
            /\ questions_asked_count = 0
    /\ DOMAIN person_attributes_map = {}
         => /\ ret.call = "__init__" /\ ret.status = "ValueError"
            /\ probabilities = << >>

\* the engine of the three-identity catalog was reset
C13_Witness ==
    /\ ret.call = "reset_game_state"
    /\ Len(all_person_names) = 3
    /\ \A n \in DOMAIN probabilities : BMulSmall(probabilities[n], 3) = scale
    /\ hard_consistent = {"X", "Y", "Z"}
    /\ questions_asked_count = 0

(***************************************************************************)
(* Entropy: _calculate_entropy and _calculate_info_gain_for_subset as the  *)
(* code computes them, on belief states whose probabilities are the        *)
(* weights k / GainGrid.  math.log2 is the table Log2Table, in units of    *)
(* 1 / LogScale, and log2(w / s) is log2(w) - log2(s).  An entropy over    *)
(* names of total weight s is kept as its product with s and LogScale,     *)
(* which is a whole number.                                                *)
(***************************************************************************)
\* the probabilities of the belief states are multiples of 1 / GainGrid
GainGrid == 10

LogScale == 10000

\* round(math.log2(n) * LogScale) for n = 1 .. 32
Log2Table ==
    <<0, 10000, 15850, 20000, 23219, 25850, 28074, 30000, 31699, 33219,
      34594, 35850, 37004, 38074, 39069, 40000, 40875, 41699, 42479, 43219,
      43923, 44594, 45236, 45850, 46439, 47004, 47549, 48074, 48580, 49069,
      49542, 50000>>

\* the whole number a numerator stands for
RECURSIVE NatOf(_)
NatOf(a) == IF a = << >> THEN 0 ELSE Head(a) + Base * NatOf(Tail(a))

\* the weight of name: its probability times GainGrid
WeightOf(probs, name) == NatOf(probs[name])

RECURSIVE WeightSum(_, _)
WeightSumStep(probs, T, n) == WeightOf(probs, n) + WeightSum(probs, T \ {n})

WeightSum(probs, T) ==
    IF T = {} THEN 0 ELSE WeightSumStep(probs, T, CHOOSE m \in T : TRUE)

\* sum(w * log2(w)) over the names of T
RECURSIVE WeightLogSum(_, _)
WeightLogTerm(w) == IF w = 0 THEN 0 ELSE w * Log2Table[w]

WeightLogStep(probs, T, n) ==
    WeightLogTerm(WeightOf(probs, n)) + WeightLogSum(probs, T \ {n})

WeightLogSum(probs, T) ==
    IF T = {} THEN 0 ELSE WeightLogStep(probs, T, CHOOSE m \in T : TRUE)

\* _calculate_entropy of the probabilities of the names of T, times their
\* sum s: -sum((w/s) * log2(w/s)) * s = s * log2(s) - sum(w * log2(w));
\* 0 for an empty list (lines 113 and 115)
EntropyOfSum(probs, T, s) ==
    IF s = 0 THEN 0 ELSE s * Log2Table[s] - WeightLogSum(probs, T)

CalculateEntropy(probs, T) == EntropyOfSum(probs, T, WeightSum(probs, T))

\* the members of the subset whose value of the attribute is 1 (yes), or
\* anything else (no)
MembersIf(subset, map, attribute, yes) ==
    {n \in subset : (AttrVal(map, n, attribute) = 1) = yes}

\* lines 185-194: information_gain = current_subset_entropy -
\* (weight_yes * entropy_if_yes + weight_no * entropy_if_no), times
\* subset_sum_probs; weight_yes * entropy_if_yes is the entropy of the yes
\* members times their sum, divided by subset_sum_probs
InformationGain(probs, subset, map, attribute) ==
    CalculateEntropy(probs, subset)
        - (CalculateEntropy(probs, MembersIf(subset, map, attribute, TRUE))
           + CalculateEntropy(probs, MembersIf(subset, map, attribute, FALSE)))

\* (mutant: >= for >, the last of the attributes of largest gain wins)
GainExceeds_OrEqual(information_gain, max_info_gain) ==
    information_gain >= max_info_gain

\* line 196
GainExceeds(information_gain, max_info_gain) ==
    information_gain > max_info_gain

\* lines 165-198: best_attribute (0 for None) after the loop
RECURSIVE BestByEntropyFrom(_, _, _, _)
BestByEntropyFrom(gains, i, best, max_info_gain) ==
    IF i > Len(gains) THEN [best |-> best, max_info_gain |-> max_info_gain]
    ELSE IF GainExceeds(gains[i], max_info_gain)
    THEN BestByEntropyFrom(gains, i + 1, i, gains[i])
    ELSE BestByEntropyFrom(gains, i + 1, best, max_info_gain)

\* g / (s * LogScale) > 1e-9
GainAboveEps(g, s) == g > (s * LogScale) \div 1000000000

\* lines 200-202
ReturnBest(r, attributes_to_evaluate, s) ==
    IF r.best # 0 /\ GainAboveEps(r.max_info_gain, s)
    THEN attributes_to_evaluate[r.best]
    ELSE "None"

\* lines 165-202; max_info_gain starts at -1.0
BestByEntropy(gains, attributes_to_evaluate, s) ==
    ReturnBest(BestByEntropyFrom(gains, 1, 0, 0 - s * LogScale),
               attributes_to_evaluate, s)

CalculateInfoGainByEntropy(probs, sc, map, count, candidate_names_subset, attributes_to_evaluate) ==
    IF candidate_names_subset = {} THEN "None"
    ELSE IF SingleCandidateConverged(candidate_names_subset, count) THEN "None"
    ELSE IF SubsetProbsDict(probs, sc, candidate_names_subset) = {} THEN "None"
    ELSE IF WeightSum(probs, candidate_names_subset) = 0 THEN "None"
    ELSE BestByEntropy(
             [i \in 1..Len(attributes_to_evaluate) |->
                 InformationGain(probs, candidate_names_subset, map,
                                 attributes_to_evaluate[i])],
             attributes_to_evaluate,
             WeightSum(probs, candidate_names_subset))

\* the lists of attributes a caller passes: attributes of the catalog, none
\* twice, in any order
AttributeListInputs == UNION {ListsOf(S) : S \in SUBSET {"a", "b"}}

calculate_info_gain_for_subset(candidate_names_subset, attributes_to_evaluate) ==
    /\ ret' = [Ret("_calculate_info_gain_for_subset", "returned",
                   CalculateInfoGainByEntropy(probabilities, scale,
                       person_attributes_map, questions_asked_count,
                       candidate_names_subset, attributes_to_evaluate),
                   Zero, One, "")
               EXCEPT !.args = <<candidate_names_subset, attributes_to_evaluate>>]
    /\ UNCHANGED <<catalog_vars, stored, game_vars, current_question_is_soft,
                   hard_consistent>>

InitGain ==
    /\ person_attributes_map = ScenarioCatalog
    /\ all_person_names = <<"X", "Y", "Z">>
    /\ all_available_attributes = <<"a", "b">>
    /\ \E f \in [{"X", "Y", "Z"} -> 0..GainGrid] :
           /\ f["X"] + f["Y"] + f["Z"] = GainGrid
           /\ probabilities = [n \in {"X", "Y", "Z"} |-> FromNat(f[n])]
    /\ scale = FromNat(GainGrid)
    /\ questions_asked_count \in
           {0, min_questions_before_confident_guess - 1,
            min_questions_before_confident_guess}
    /\ asked_attributes = IF questions_asked_count = 0 THEN {} ELSE {"a"}
    /\ current_question_is_soft =
           IF questions_asked_count = 0 THEN "none"
           ELSE Regime(questions_asked_count)
    /\ hard_consistent = {"X", "Y", "Z"}
    /\ ret = NoRet
    /\ stored = NoSessions

\* the callers pass names above 1e-9 (lines 239 and 245)
NextGain ==
    \E subset \in SUBSET ActiveNames(probabilities, scale),
       attributes \in AttributeListInputs :
        calculate_info_gain_for_subset(subset, attributes)

SpecGain == InitGain /\ [][NextGain]_vars

IsGainCall == ret.call = "_calculate_info_gain_for_subset"

\* the information gain, over the subset of the last call, of the i-th
\* attribute it was given
GainOfGiven(i) ==
    InformationGain(probabilities, ret.args[1], person_attributes_map,
                    ret.args[2][i])

\* the i-th attribute given has a gain above 1e-9 that no attribute given
\* exceeds and no attribute given before it reaches
IsFirstOfLargestGain(i) ==
    /\ GainAboveEps(GainOfGiven(i), WeightSum(probabilities, ret.args[1]))
    /\ \A j \in 1..Len(ret.args[2]) : GainOfGiven(j) <= GainOfGiven(i)
    /\ \A j \in 1..(i - 1) : GainOfGiven(j) < GainOfGiven(i)

\* C14: _calculate_info_gain_for_subset returns none for an empty subset
\* and for a subset of one member when the count has reached the minimum;
\* otherwise it returns the first of the attributes given whose gain is the
\* largest when that gain exceeds 1e-9, and none when no gain does
C14_FirstAttributeOfLargestGain ==
    IsGainCall =>
        IF \/ ret.args[1] = {}
           \/ /\ Cardinality(ret.args[1]) = 1
              /\ questions_asked_count >= min_questions_before_confident_guess
        THEN ret.name = "None"
        ELSE IF \E i \in 1..Len(ret.args[2]) : IsFirstOfLargestGain(i)
        THEN \E i \in 1..Len(ret.args[2]) :
                 IsFirstOfLargestGain(i) /\ ret.name = ret.args[2][i]
        ELSE /\ ret.name = "None"
             /\ \A i \in 1..Len(ret.args[2]) : GainOfGiven(i) <= 0

\* two attributes have the same, largest gain and the first one given, which
\* is the second one of the catalog, was returned
C14_Witness ==
    /\ IsGainCall
    /\ ret.args[2] = <<"b", "a">>
    /\ GainOfGiven(1) = GainOfGiven(2)
    /\ GainOfGiven(1) > 0
    /\ ret.name = "b"

\* the gains computed from the entropies select the attribute that the
\* comparison of the smaller weights (CalculateInfoGainForSubset) selects
EntropyOrderIsWeightOrder ==
    IsGainCall =>
        ret.name = CalculateInfoGainForSubset(probabilities, scale,
                       person_attributes_map, questions_asked_count,
                       ret.args[1], ret.args[2])

(***************************************************************************)
(* src/main.py: the sessions table and the requests.  A request builds a   *)
(* new engine, loads the saved state of its session into it, and runs to   *)
(* its response without interruption; the engine variables hold the game   *)
(* object of the last request.                                             *)
(***************************************************************************)
\* the fields of a game object that a session keeps
GameState(probs, sc, asked, count) ==
    [probabilities |-> probs, scale |-> sc, asked_attributes |-> asked,
     questions_asked_count |-> count]

\* (mutant: the row of a finished game stays in the table)
DeleteGameSession_Keeps(rows) == rows

\* delete_game_session: the row of the session after the DELETE
DeleteGameSession(rows) == Absent

\* save_game_session: the row of the session after the REPLACE; the set of
\* asked attributes is written as a list
SaveGameSession(game) ==
    {[probabilities |-> game.probabilities, scale |-> game.scale,
      asked_attributes |-> CHOOSE q \in ListsOf(game.asked_attributes) : TRUE,
      questions_asked_count |-> game.questions_asked_count]}

\* load_game_session: the list of asked attributes is read back as a set
LoadGameSession(row) ==
    GameState(row.probabilities, row.scale, SeqRange(row.asked_attributes),
              row.questions_asked_count)

\* reset_game_state on the new engine
FreshGame(u) == GameState(u.probabilities, u.scale, {}, 0)

\* get_game_session: the loaded state, or a reset one when no row is found
GetGameSession(rows, names) ==
    IF rows # Absent THEN LoadGameSession(CHOOSE row \in rows : TRUE)
    ELSE FreshGame(UniformProbabilities(names))

\* line 109: no game object, or one without probabilities
SessionLost(game) == DOMAIN game.probabilities = {}

\* line 115
AnswerBinary(answer) == IF answer = "yes" THEN 1 ELSE 0

\* record_answer_and_update on the game object, from the result u of
\* _update_probabilities and its canonical form r
RecordedGame(game, u, r, attribute) ==
    [game |-> GameState(r.probabilities, r.scale,
                         AskedAfterAnswer(game.asked_attributes, attribute),
                         CountAfterAnswer(game.questions_asked_count)),
     status |-> IF u.ok THEN "updated" ELSE "contradiction"]

RecordedFrom(game, u, attribute) ==
    RecordedGame(game, u, Reduce(u.probabilities, u.scale), attribute)

RecordOn(game, map, names, attributes, attribute, user_answer_binary) ==
    IF ~IsValidAttribute(attribute, attributes)
    THEN [game |-> game, status |-> "error"]
    ELSE RecordedFrom(game,
             UpdateProbabilities(game.probabilities, game.scale, map, names,
                 attribute, user_answer_binary,
                 CountAfterAnswer(game.questions_asked_count)),
             attribute)

\* lines 147-171: the response when get_guess_if_ready asked for more
QuestionOutcome(game, next_question) ==
    IF next_question = "None"
    THEN [status |-> "out_of_questions", game_over |-> TRUE, name |-> "None",
          row |-> DeleteGameSession(SaveGameSession(game))]
    ELSE [status |-> "question", game_over |-> FALSE, name |-> next_question,
          row |-> SaveGameSession(game)]

\* lines 128-171
GuessOutcome(game, guess_info, map, attributes, names) ==
    IF guess_info.status = "guess"
    THEN [status |-> "guess", game_over |-> TRUE, name |-> guess_info.name,
          row |-> DeleteGameSession(SaveGameSession(game))]
    ELSE QuestionOutcome(game,
             SelectNextQuestion(game.probabilities, game.scale, map,
                 game.asked_attributes, game.questions_asked_count,
                 attributes, names))

\* lines 119-171, from the result of record_answer_and_update
AnswerOutcome(recorded, map, attributes, names) ==
    IF recorded.status = "contradiction"
    THEN [status |-> "contradiction", game_over |-> TRUE, name |-> "None",
          row |-> DeleteGameSession(SaveGameSession(recorded.game))]
    ELSE GuessOutcome(recorded.game,
             GetGuessIfReady(recorded.game.probabilities, recorded.game.scale,
                 recorded.game.asked_attributes,
                 recorded.game.questions_asked_count, attributes, names),
             map, attributes, names)

\* the response of a request
Response(call, args, outcome) ==
    [call |-> call, args |-> args, status |-> outcome.status,
     name |-> outcome.name, certainty |-> [num |-> Zero, den |-> One],
     message |-> IF outcome.game_over THEN "game_over" ELSE ""]

\* the game object of the request becomes the engine, the row of the
\* session is written, the response is returned
RequestEnds(session_id, game, outcome, call, args) ==
    /\ probabilities' = game.probabilities
    /\ scale' = game.scale
    /\ asked_attributes' = game.asked_attributes
    /\ questions_asked_count' = game.questions_asked_count
    /\ stored' = [stored EXCEPT ![session_id] = outcome.row]
    /\ ret' = Response(call, args, outcome)

\* GET /: a new session, reset and saved, and its first question
read_root(session_id) ==
    /\ stored[session_id] = Absent
    /\ \E game \in {GetGameSession(stored[session_id], all_person_names)} :
         \E next_question \in {SelectNextQuestion(game.probabilities,
                                   game.scale, person_attributes_map,
                                   game.asked_attributes,
                                   game.questions_asked_count,
                                   all_available_attributes,
                                   all_person_names)} :
           RequestEnds(session_id, game,
               [status |-> IF next_question = "None"
                           THEN "no_first_question" ELSE "question",
                game_over |-> next_question = "None",
                name |-> next_question,
                row |-> SaveGameSession(game)],
               "read_root", <<session_id>>)
    /\ current_question_is_soft' = "none"
    /\ hard_consistent' = SeqRange(all_person_names)
    /\ UNCHANGED catalog_vars

\* POST /answer
handle_answer(session_id, attribute_name, answer) ==
    \E game \in {GetGameSession(stored[session_id], all_person_names)} :
        IF SessionLost(game)
        THEN /\ RequestEnds(session_id, game,
                    [status |-> "session_error", game_over |-> TRUE,
                     name |-> "None", row |-> SaveGameSession(game)],
                    "handle_answer", <<session_id, attribute_name, answer>>)
             /\ UNCHANGED <<catalog_vars, current_question_is_soft,
                            hard_consistent>>
        ELSE /\ game.questions_asked_count < MaxQuestions
             /\ \E recorded \in {RecordOn(game, person_attributes_map,
                                     all_person_names, all_available_attributes,
                                     attribute_name, AnswerBinary(answer))} :
                  /\ RequestEnds(session_id, recorded.game,
                         AnswerOutcome(recorded, person_attributes_map,
                             all_available_attributes, all_person_names),
                         "handle_answer",
                         <<session_id, attribute_name, answer>>)
                  /\ current_question_is_soft' =
                         IF recorded.status = "error"
                         THEN IF stored[session_id] = Absent THEN "none"
                              ELSE current_question_is_soft
                         ELSE Regime(recorded.game.questions_asked_count)
                  /\ hard_consistent' =
                         IF \/ recorded.status = "error"
                            \/ IsSoftQuestion(recorded.game.questions_asked_count)
                         THEN IF stored[session_id] = Absent
                              THEN SeqRange(all_person_names)
                              ELSE hard_consistent
                         ELSE Matching(IF stored[session_id] = Absent
                                       THEN SeqRange(all_person_names)
                                       ELSE hard_consistent,
                                       person_attributes_map, attribute_name,
                                       AnswerBinary(answer))
             /\ UNCHANGED catalog_vars

\* what the forms of the page send as answer
AnswerInputs == {"yes", "no"}

NextWeb ==
    \/ \E session_id \in SessionIds : read_root(session_id)
    \/ \E session_id \in SessionIds, attribute_name \in AttributeInputs,
          answer \in AnswerInputs :
           handle_answer(session_id, attribute_name, answer)

SpecWeb == Init /\ [][NextWeb]_vars

IsAnswerRequest == ret.call = "handle_answer"

\* the game object at the end of the request
GameNow ==
    GameState(probabilities, scale, asked_attributes, questions_asked_count)

\* the request ended the game: a contradiction was reported, or
\* get_guess_if_ready produced a guess, no one matches or stumped, or
\* select_next_question had no further question
GameEnded ==
    \/ ret.status = "contradiction"
    \/ GetGuessIfReady(probabilities, scale, asked_attributes,
                       questions_asked_count, all_available_attributes,
                       all_person_names).status = "guess"
    \/ SelectNextQuestion(probabilities, scale, person_attributes_map,
                          asked_attributes, questions_asked_count,
                          all_available_attributes, all_person_names) = "None"

\* C15: after a request that handled an answer, the session has no stored
\* row when the request ended the game (contradiction, a guess or no one
\* matches / stumped, no further question), and when the game continues the
\* stored row is the updated state of the game.
C15_StoredStateDiscardedWhenGameEnds ==
    IsAnswerRequest
        => \A session_id \in {ret.args[1]} :
              IF GameEnded
              THEN stored[session_id] = Absent
              ELSE /\ stored[session_id] # Absent
                   /\ \A row \in stored[session_id] :
                          LoadGameSession(row) = GameNow

\* an answer ended a game that had a stored row after earlier answers
C15_Witness ==
    /\ IsAnswerRequest
    /\ ret.status = "guess"
    /\ ret.name = "X"
    /\ questions_asked_count >= 2
    /\ stored[ret.args[1]] = Absent

(***************************************************************************)
(* The update of an answer compared with the product rule: old             *)
(* probability times the multiplier of the regime, over the sum of the     *)
(* products.                                                               *)
(***************************************************************************)
\* the multiplier, as a numerator over multiplier_soft_den: 1.0 on a match,
\* on a mismatch 0.4 in the soft regime and 0 in the hard regime
MultiplierNum(map, n, attribute, answer, count) ==
    IF AttrVal(map, n, attribute) = answer THEN match_multiplier_soft_num
    ELSE IF IsSoftQuestion(count) THEN mismatch_multiplier_soft_num
    ELSE 0

\* old probability times multiplier, for every identity
Products(attribute, answer, count) ==
    [n \in DOMAIN probabilities |->
        BMulSmall(probabilities[n],
                  MultiplierNum(person_attributes_map, n, attribute, answer,
                                count))]

\* the products over their sum
ProductsOverSum(products) == Reduce(products, SumProbs(products))

\* C16: after every answer that reports "updated", each identity's
\* probability is its old probability times m over the sum of those
\* products, m being 1.0 on a match and, on a mismatch, 0.4 in the soft
\* regime and 0 in the hard regime
C16_UpdateIsProductRule ==
    [][ (IsProcessedAnswer' /\ ret'.status = "updated")
          => [probabilities |-> probabilities', scale |-> scale'] =
                 ProductsOverSum(Products(ret'.args[1], ret'.args[2],
                                          questions_asked_count')) ]_vars

\* the same on the states in which no identity lies strictly between 0 and
\* 1e-9, where the skip of lines 126 and 134 changes nothing
UpdateIsProductRuleAboveEps ==
    [][ (/\ IsProcessedAnswer' /\ ret'.status = "updated"
         /\ \A n \in DOMAIN probabilities :
                probabilities[n] = Zero \/ ~BelowEps(probabilities[n], scale))
          => [probabilities |-> probabilities', scale |-> scale'] =
                 ProductsOverSum(Products(ret'.args[1], ret'.args[2],
                                          questions_asked_count')) ]_vars

\* the first answer a = 1 of a game, from the uniform start: the products
\* 1/3, 0.4/3, 1/3 over their sum 2.4/3 are 5/12, 1/6, 5/12
SoftAnswerFromUniform ==
    [][ (/\ IsProcessedAnswer' /\ ret'.args = <<"a", 1>>
         /\ questions_asked_count = 0
         /\ [probabilities |-> probabilities, scale |-> scale] =
                UniformProbabilities(all_person_names))
          => /\ scale' = FromNat(12)
             /\ probabilities' =
                    [n \in DOMAIN probabilities |->
                        IF n = "Y" THEN FromNat(2) ELSE FromNat(5)] ]_vars

\* C17: a soft-regime answer leaves every identity of nonzero probability
\* with a nonzero probability, and from a normalised state it never reports
\* a contradiction
C17_SoftAnswerKeepsEveryCandidate ==
    [][ (IsProcessedAnswer' /\ current_question_is_soft' = "soft")
          => /\ \A n \in DOMAIN probabilities :
                    probabilities[n] # Zero => probabilities'[n] # Zero
             /\ SumWithinEpsOfOne(probabilities, scale)
                    => ret'.status = "updated" ]_vars

\* a soft-regime answer was applied and an identity that mismatches it is
\* still a candidate
C17_Witness ==
    /\ IsProcessedAnswer /\ ret.status = "updated"
    /\ current_question_is_soft = "soft"
    /\ \E n \in DOMAIN probabilities :
          /\ AttrVal(person_attributes_map, n, ret.args[1]) # ret.args[2]
          /\ AboveEps(probabilities[n], scale)

\* all probabilities lie in [0, 1] and sum to 1 within 1e-9
Normalised(probs, sc) ==
    /\ \A n \in DOMAIN probs : BLeq(probs[n], sc)
    /\ SumWithinEpsOfOne(probs, sc)

\* every probability is below 1e-9
Exhausted(probs, sc) == \A n \in DOMAIN probs : BelowEps(probs[n], sc)

\* C18: in every state reached from reset_game_state by answers and
\* wrong-guess penalties the belief state is normalised or exhausted, and
\* a handle_wrong_guess on a normalised state leaves it normalised
C18_NormalisedOrExhausted ==
    /\ [](Normalised(probabilities, scale) \/ Exhausted(probabilities, scale))
    /\ [][ (IsPenalty' /\ Normalised(probabilities, scale))
              => Normalised(probabilities', scale') ]_vars

\* a known identity was penalised after an answer and the state is
\* normalised, the penalised identity holding less than another one
C18_Witness ==
    /\ IsPenalty
    /\ questions_asked_count >= 1
    /\ Normalised(probabilities, scale)
    /\ probabilities[ret.args[1]] # Zero
    /\ \E n \in DOMAIN probabilities :
           BLess(probabilities[ret.args[1]], probabilities[n])

\* a contradiction left the belief state exhausted, not normalised
ExhaustedIsReached ==
    /\ ret.status = "contradiction"
    /\ DOMAIN probabilities # {}
    /\ Exhausted(probabilities, scale)
    /\ ~Normalised(probabilities, scale)

\* the calls that may change the belief state
MutatingCalls ==
    {"record_answer_and_update", "handle_wrong_guess", "reset_game_state"}

\* C19: a get_guess_if_ready or select_next_question call changes none of
\* probabilities, asked_attributes and questions_asked_count; whenever one
\* of them changes, the call was record_answer_and_update,
\* handle_wrong_guess or reset_game_state
C19_GuessAndQuestionAreReadOnly ==
    [][ /\ (IsGuessCall' \/ IsQuestionCall') => UNCHANGED game_vars
        /\ game_vars' # game_vars => ret'.call \in MutatingCalls ]_vars

\* select_next_question returned an attribute in the middle of a game and
\* that attribute is not among the asked ones
C19_Witness ==
    /\ IsQuestionCall
    /\ ret.status = "question"
    /\ questions_asked_count = 1
    /\ ret.name \notin asked_attributes
    /\ Normalised(probabilities, scale)

IsWrongGuessCall == ret.call = "handle_wrong_guess"

\* C20: handle_wrong_guess with a name that is not a key of probabilities,
\* or with no name, returns False and leaves probabilities,
\* asked_attributes and questions_asked_count unchanged; with a known name
\* it returns True and leaves asked_attributes and questions_asked_count
\* unchanged
C20_WrongGuessFrame ==
    [][ IsWrongGuessCall' =>
          IF ret'.args[1] = "" \/ ret'.args[1] \notin DOMAIN probabilities
          THEN ret'.status = "False" /\ UNCHANGED game_vars
          ELSE /\ ret'.status = "True"
               /\ UNCHANGED <<asked_attributes, questions_asked_count>> ]_vars

\* in the middle of a game an unknown name was refused
C20_Witness ==
    /\ IsWrongGuessCall
    /\ ret.args[1] = "Nobody"
    /\ ret.status = "False"
    /\ questions_asked_count >= 1
    /\ DOMAIN probabilities # {}

\* in the middle of a game a known name was penalised
KnownNamePenalised ==
    /\ IsPenalty
    /\ ret.args[1] \in DOMAIN probabilities
    /\ asked_attributes # {}

\* a call without a name was refused
EmptyNameRefused ==
    /\ IsWrongGuessCall /\ ret.args[1] = "" /\ ret.status = "False"
    /\ DOMAIN probabilities # {}

\* get_guess_if_ready returned a guess that names an identity
IsNamedGuess == IsGuessCall /\ ret.status = "guess" /\ ret.name # "None"

\* C21: a guess of get_guess_if_ready names an identity only when
\* questions_asked_count >= 5 or every attribute of the catalog was asked;
\* the named identity has the largest probability of all identities, and
\* that probability is > 1e-9
C21_NamedGuessOnlyWhenReady ==
    IsNamedGuess
        => /\ \/ questions_asked_count >= 5
              \/ AttributeSet \subseteq asked_attributes
           /\ ret.name \in DOMAIN probabilities
           /\ \A m \in DOMAIN probabilities :
                  BLeq(probabilities[m], probabilities[ret.name])
           /\ AboveEps(probabilities[ret.name], scale)

\* an identity was named after five answers although an attribute was never
\* asked, and another identity is still a candidate
C21_Witness ==
    /\ IsNamedGuess
    /\ questions_asked_count >= 5
    /\ ~(AttributeSet \subseteq asked_attributes)
    /\ Cardinality(Candidates) >= 2

\* an identity was named before five answers, every attribute being asked
NamedGuessAfterAllAsked ==
    /\ IsNamedGuess
    /\ questions_asked_count < 5
    /\ AttributeSet \subseteq asked_attributes

\* reset_game_state was called: the probabilities are loaded
GameStarted == DOMAIN probabilities # {}

\* what get_guess_if_ready returns in the current state
GuessNow ==
    GetGuessIfReady(probabilities, scale, asked_attributes,
                    questions_asked_count, all_available_attributes,
                    all_person_names)

\* what select_next_question returns in the current state
QuestionNow ==
    SelectNextQuestion(probabilities, scale, person_attributes_map,
                       asked_attributes, questions_asked_count,
                       all_available_attributes, all_person_names)

\* C22: in every state reached from reset_game_state in which
\* get_guess_if_ready returns ask_more, select_next_question returns an
\* attribute of the catalog that was not asked, never none
C22_QuestionWheneverAskMore ==
    (GameStarted /\ GuessNow.status = "ask_more")
        => /\ QuestionNow \in Unasked
           /\ IsQuestionCall => ret.name = QuestionNow

\* select_next_question returned an attribute, after an answer and a
\* penalty, in a state where get_guess_if_ready asks for more
C22_Witness ==
    /\ IsQuestionCall /\ ret.status = "question"
    /\ GameStarted
    /\ GuessNow.status = "ask_more"
    /\ questions_asked_count >= 1
    /\ ret.name \in Unasked

\* no answer request ends because the selection returned nothing
NeverOutOfQuestions == ret.status # "out_of_questions"

\* before the first reset get_guess_if_ready asks for more and
\* select_next_question returns none
NoQuestionBeforeReset ==
    /\ ~GameStarted
    /\ IsQuestionCall /\ ret.status = "none"
    /\ GuessNow.status = "ask_more"

(***************************************************************************)
(* standalone_play: the game loop.  After reset_game_state it consults     *)
(* get_guess_if_ready; on ask_more it calls select_next_question, reads an *)
(* answer and calls record_answer_and_update with the selected attribute;  *)
(* it leaves the loop on a guess (after handle_wrong_guess when the player *)
(* rejects a named guess), when no question is returned, and on a          *)
(* contradiction.  The position in the loop is the last call made.         *)
(***************************************************************************)
\* the datasets played: the three-identity catalog, and a catalog of five
\* attributes, enough for hard-regime answers and for the minimum of five
\* questions
PlayDatasets ==
    {<<[name |-> "X", attributes |-> [a |-> 1]],
       [name |-> "Y", attributes |-> [a |-> 0, b |-> 1]],
       [name |-> "Z", attributes |-> [a |-> 1, b |-> 1]]>>,
     <<[name |-> "W", attributes |-> [a |-> 1, b |-> 1, c |-> 1, d |-> 1, e |-> 1]],
       [name |-> "X", attributes |-> [a |-> 1, b |-> 0, c |-> 1, d |-> 0]],
       [name |-> "Y", attributes |-> [a |-> 0, b |-> 1, c |-> 0, d |-> 1, e |-> 1]],
       [name |-> "Z", attributes |-> [a |-> 0, b |-> 0, c |-> 1, d |-> 0, e |-> 1]]>>}

InitPlay ==
    \E dataset \in PlayDatasets :
        /\ person_attributes_map = PersonAttributesMap(DataList(dataset))
        /\ all_person_names = AllPersonNames(DataList(dataset))
        /\ all_available_attributes \in
               ListsOf(TempAttributes(PersonAttributesMap(DataList(dataset))))
        /\ probabilities = [n \in {} |-> Zero]
        /\ scale = One
        /\ asked_attributes = {}
        /\ questions_asked_count = 0
        /\ current_question_is_soft = "none"
        /\ hard_consistent = SeqRange(AllPersonNames(DataList(dataset)))
        /\ ret = ConstructionRet(PersonAttributesMap(DataList(dataset)))
        /\ stored = NoSessions

\* line 333: the play starts on the constructed engine
AtPlayStart == ret.call = "__init__" /\ ret.status = "constructed"

\* line 336: the top of the loop, after the reset and after each answer
\* that did not report a contradiction
AtLoopTop ==
    \/ ret.call = "reset_game_state"
    \/ ret.call = "record_answer_and_update" /\ ret.status # "contradiction"

\* line 362: get_guess_if_ready did not return a guess
AtAskMore == IsGuessCall /\ ret.status # "guess"

\* lines 375-382: a question was selected and is put to the player
AtQuestion == IsQuestionCall /\ ret.status = "question"

NextPlay ==
    \/ AtPlayStart /\ reset_game_state
    \/ AtLoopTop /\ get_guess_if_ready
    \/ AtAskMore /\ select_next_question
    \/ AtQuestion /\ \E answer \in {0, 1} :
                         record_answer_and_update(ret.name, answer)
    \/ IsNamedGuess /\ handle_wrong_guess(ret.name)

\* the loop is sequential code: it takes its next step whenever it has one.
\* The step of a position is enabled exactly in that position and leaves
\* it, so its weak fairness says that the play does not stay in the
\* position for ever; for the three steps that compute on the belief state
\* it is written in that form.
PlayFairness ==
    /\ WF_vars(AtPlayStart /\ reset_game_state)
    /\ []<>~AtLoopTop
    /\ []<>~AtAskMore
    /\ []<>~AtQuestion

SpecPlay == InitPlay /\ [][NextPlay]_vars /\ PlayFairness

\* the answer to a selected question is never refused by the bound of the
\* model on the number of answers
QuestionWithinBound == AtQuestion => questions_asked_count < MaxQuestions

\* the loop reached a guess result, named or not, or a contradiction
GameOver ==
    \/ IsGuessCall /\ ret.status = "guess"
    \/ ret.call = "record_answer_and_update" /\ ret.status = "contradiction"
    \/ ret.call = "handle_wrong_guess"

\* C23: the game loop terminates for any answers: it never processes more
\* answers than the catalog has attributes, after that many answers without
\* contradiction get_guess_if_ready returns a guess, and every play reaches
\* a guess result or a contradiction
C23_GameLoopTerminates ==
    /\ [](questions_asked_count <= Len(all_available_attributes))
    /\ []((AtLoopTop /\ questions_asked_count = Len(all_available_attributes))
            => GuessNow.status = "guess")
    /\ <>GameOver

\* a play ended with a contradiction on its last possible answer
C23_Witness ==
    /\ ret.call = "record_answer_and_update" /\ ret.status = "contradiction"
    /\ questions_asked_count = Len(all_available_attributes)
    /\ questions_asked_count = 5

\* questions_asked_count = len(asked_attributes)
CountIsAsked == questions_asked_count = Cardinality(asked_attributes)

\* C24: questions_asked_count >= |asked_attributes| in every state; an
\* answer to an already asked attribute increments the count and leaves
\* asked_attributes as it is; and an answer to the attribute that
\* select_next_question has just returned keeps the count equal to
\* |asked_attributes|, so that the two are equal throughout a game loop,
\* which starts from reset_game_state with both at 0
C24_CountAtLeastAsked ==
    /\ [](questions_asked_count >= Cardinality(asked_attributes))
    /\ [][ IsProcessedAnswer' =>
             /\ questions_asked_count' = questions_asked_count + 1
             /\ ret'.args[1] \in asked_attributes
                    => asked_attributes' = asked_attributes
             /\ (/\ IsQuestionCall /\ ret.status = "question"
                 /\ ret'.args[1] = ret.name
                 /\ CountIsAsked)
                    => CountIsAsked' ]_vars
    /\ [][ ret'.call = "reset_game_state" => CountIsAsked' ]_vars

\* the attribute a was answered a second time: the count is 2 with one
\* asked attribute, and the soft update was applied twice (0.16 to 1)
C24_Witness ==
    /\ IsProcessedAnswer /\ ret.args = <<"a", 1>>
    /\ questions_asked_count = 2
    /\ asked_attributes = {"a"}
    /\ GameStarted
    /\ BMulSmall(probabilities["X"], 4) = BMulSmall(probabilities["Y"], 25)

\* in the game loop the count is the number of asked attributes
PlayCountIsAsked == CountIsAsked

\* an answer of the game loop was recorded for a selected attribute
PlayAnswered ==
    /\ IsProcessedAnswer /\ questions_asked_count = 3 /\ CountIsAsked

\* an answer was processed and no identity is above 1e-9
ExhaustedGame ==
    questions_asked_count > 0 /\ Exhausted(probabilities, scale)

\* ExhaustedGame in the state a step leads to
ExhaustedGameNext ==
    /\ questions_asked_count' > 0
    /\ \A probs \in {probabilities'} : \A sc \in {scale'} : Exhausted(probs, sc)

\* C25: a record_answer_and_update that reports a contradiction leaves the
\* game exhausted, and until reset_game_state the game stays exhausted:
\* every later answer to a valid attribute reports a contradiction,
\* select_next_question returns none and get_guess_if_ready returns the
\* result "No one matches your answers."
C25_ExhaustionIsAbsorbing ==
    [][ /\ (IsProcessedAnswer' /\ ret'.status = "contradiction")
              => ExhaustedGameNext
        /\ (ExhaustedGame /\ ret'.call # "reset_game_state")
              => /\ ExhaustedGameNext
                 /\ IsProcessedAnswer' => ret'.status = "contradiction"
                 /\ IsQuestionCall' => ret'.status = "none"
                 /\ IsGuessCall' =>
                        /\ ret'.status = "guess" /\ ret'.name = "None"
                        /\ ret'.message = "No one matches your answers." ]_vars

\* after a contradiction select_next_question returned none although an
\* attribute of the catalog was never asked
C25_Witness ==
    /\ IsQuestionCall /\ ret.status = "none"
    /\ GameStarted
    /\ ExhaustedGame
    /\ Unasked # {}

\* a contradiction was reported on an exhausted game in which an identity
\* below 1e-9 is not at 0
ContradictionWithRemainder ==
    /\ IsProcessedAnswer /\ ret.status = "contradiction"
    /\ ExhaustedGame
    /\ \E n \in DOMAIN probabilities : probabilities[n] # Zero

====
